---- MODULE Spec2Model ----
(***************************************************************************)
(* State-machine model of the MPRL engine environments.                    *)
(*                                                                         *)
(*   src/mprl/engines.py : Engine, TwoZoneEngine (DiscreteTwoZoneEngine),  *)
(*                         ReactorEngine, EquilibrateEngine                *)
(*   src/engine.py       : Engine (the earlier two-zone environment)       *)
(*   mprl/actiontypes.py : DiscreteActionType, the action controller; its  *)
(*                         source is not part of src/, it is modelled from *)
(*                         section 4.2 of the specification.               *)
(*                                                                         *)
(* Quantities are integers (fixed point): crank angle in degrees, time in  *)
(* ticks of 1/s2ca seconds (one tick per degree), volume in cm^3, pressure *)
(* in atm (src/mprl/engines.py) or bar (src/engine.py).  Quotients are     *)
(* floored.  The results of the ODE solver, of Cantera's reactor network   *)
(* and of its equilibrium solver are inputs of the step actions, drawn     *)
(* from the small sets Outcomes and Outcomes0.                             *)
(***************************************************************************)
EXTENDS Integers, Sequences, FiniteSets, TLC

VARIABLES
    engine,         \* constructor arguments of the engine instance
    history,        \* self.history: the resampled reference cycle
    current_state,  \* self.current_state (pd.Series; .name is the step index)
    action,         \* self.action: the action controller
    result,         \* what the last reset()/step() call gave back to its caller
    trace,          \* states and termination results of the sub-steps of the last step()
    episode,        \* bookkeeping of the calls made since the last reset()
    info,           \* the state record the caller holds from the info of the last step()
    peer,           \* a second engine instance of the same process, not the one being called
    deriv           \* arguments and results of a call of TwoZoneEngine.dfundt_mdot

vars == <<engine, history, current_state, action, result, trace, episode, info,
          peer, deriv>>

(***************************************************************************)
(* Bounds of the model.                                                    *)
(***************************************************************************)
MaxAgentSteps == 4      \* agent_steps / nsteps is drawn from 3..MaxAgentSteps
MaxInjectionsArg == 1   \* max_injections is None or drawn from 0..MaxInjectionsArg
MaxDelaySteps == 2      \* injection_delay is drawn from 0..MaxDelaySteps agent steps
MaxSubRatio == 2        \* ReactorEngine: ceil(dt_agent / dt) is drawn from 1..MaxSubRatio
MaxExtraCalls == 1      \* step() calls allowed beyond the agent_steps - 1 of an episode
MaxDerivMass == 2       \* dfundt_mdot: mb is drawn from 0..MaxDerivMass, in units of small_mass
MaxDerivRate == 2       \* dfundt_mdot: Qdot and the A.24 value are drawn from -MaxDerivRate..MaxDerivRate

(***************************************************************************)
(* Program constants.                                                      *)
(***************************************************************************)
ivc == -100             \* intake valve closing, degrees
evo == 100              \* exhaust valve opening, degrees
s2ca == 1               \* degrees per tick (1 / (60 / RPM / 360) per second)
TDCvol == 61            \* volume at top dead centre, cm^3
one_atm == 1            \* ct.one_atm in the pressure unit of the model
max_pressure == 200 * one_atm
default_negative_reward == -800
mdot == 1               \* rate of mass injection, mass units per tick
max_minj == 100         \* largest injected mass, mass units
starting_cycle_p == 3   \* cycle.p[0], atm
inv_far == 15           \* 1 / far, air-fuel ratio of the injected mixture
max_pressure0 == 80     \* src/engine.py: 8e6 Pa, in bar
max_burned_mass0 == 100 \* src/engine.py: 6e-4 kg, in mass units
negative_reward0 == -20 \* src/engine.py
None == -1              \* max_injections=None
displacement == 500     \* pi / 4 * Bore^2 * Stroke, cm^3
cylinder_area == 58     \* pi / 4 * Bore^2, cm^2
p00 == 1                \* src/engine.py: p0, bar
T00 == 298              \* src/engine.py: T0, K
max_mdot0 == 1          \* src/engine.py: max_mdot, mass units per tick
NoStep == -1            \* lastInjectionStep before the first injection
max_burned_mass == 12000 \* src/mprl/engines.py: 6e-3 kg, in mass units
small_mass == 1         \* src/mprl/engines.py: 1e-15 kg, the unit of mb in dfundt_mdot

Discrete == {"TwoZone", "Reactor", "Equilibrate"}

\* ceil(n / d) for n >= 0, d > 0  (np.ceil)
CeilDiv(n, d) == (n + d - 1) \div d

\* np.rint(n / d) for n >= 0, d > 0: round half to even
Rint(n, d) ==
    LET q == n \div d
        r == n % d
    IN  IF 2 * r < d THEN q
        ELSE IF 2 * r > d THEN q + 1
        ELSE IF q % 2 = 0 THEN q ELSE q + 1

(***************************************************************************)
(* Quantities derived from the constructor arguments.                      *)
(* e is the record of constructor arguments:                               *)
(*   kind, agent_steps (nsteps for Engine0), max_injections,               *)
(*   injection_delay (ticks), dt (ReactorEngine's chemistry time step)     *)
(***************************************************************************)
total_time == (evo - ivc) \div s2ca

dt_agent(e) == total_time \div (e.agent_steps - 1)

\* one sub-step more than the agent step holds
substeps_one_more(e) == CeilDiv(dt_agent(e), e.dt) + 2

\* ReactorEngine.__init__: substeps = int(np.ceil(dt_agent / dt)) + 1
substeps(e) == CeilDiv(dt_agent(e), e.dt) + 1

nsteps(e) ==
    IF e.kind = "Reactor"
    THEN (e.agent_steps - 1) * (substeps(e) - 1) + 1
    ELSE e.agent_steps

negative_reward(e) ==
    CASE e.kind = "TwoZone" -> -e.agent_steps
      [] e.kind = "Engine0" -> negative_reward0
      [] OTHER -> default_negative_reward \div (e.agent_steps - 1)

\* the limit computed from max_minj whatever the max_injections argument
max_injections_from_mass(e) == Rint(max_minj, mdot * dt_agent(e))

\* Engine.setup_discrete_injection_actions: the limit of the mdot channel
max_injections(e) ==
    IF e.max_injections = None
    THEN Rint(max_minj, mdot * dt_agent(e))
    ELSE e.max_injections

\* the delay handed to the controller in ticks, not divided by dt_agent
delays_in_ticks(e) == e.injection_delay

\* Engine.setup_discrete_injection_actions: the delay of the mdot channel in
\* agent steps, injection_delay / dt_agent.  The controller compares it with a
\* whole number of steps, so the quotient is rounded up.
delays(e) == CeilDiv(e.injection_delay, dt_agent(e))

(***************************************************************************)
(* The history track.                                                      *)
(***************************************************************************)
\* the reference cycle (datafiles/Isooctane_MBT_DI_50C_Summ.xlsx): volume and
\* volume increment per data row as functions of the crank angle
CycleV(ca) == TDCvol + (ca * ca) \div 40
CycleDV(ca) == ca \div 20

\* np.linspace(ivc, evo, n, endpoint=False)[i]
linspace_no_endpoint(n, i) == ivc + (i * (evo - ivc)) \div n

\* np.linspace(ivc, evo, n)[i]; for n = 1 the one sample is ivc
linspace(n, i) == IF n = 1 THEN ivc ELSE ivc + (i * (evo - ivc)) \div (n - 1)

\* np.gradient(V)[i] for the n samples V(0) .. V(n-1)
gradient(n, i) ==
    LET V(j) == CycleV(linspace(n, j))
    IN  IF i = 0 THEN V(1) - V(0)
        ELSE IF i = n - 1 THEN V(n - 1) - V(n - 2)
        ELSE (V(i + 1) - V(i - 1)) \div 2

\* Engine.setup_history and ReactorEngine.setup_piston (src/mprl/engines.py)
setup_history(e) ==
    LET n == nsteps(e)
        dca == (evo - ivc) \div (n - 1)
        dt == dca \div s2ca
    IN  [i \in 0..(n - 1) |->
            LET ca == linspace(n, i)
                dV == gradient(n, i)
                dVdt == dV \div dt
            IN  [V |-> CycleV(ca), dVdt |-> dVdt, dV |-> dV, ca |-> ca,
                 t |-> (ca + 360) \div s2ca,
                 piston_velocity |->
                    IF e.kind = "Reactor"
                    THEN (dVdt * 100) \div cylinder_area ELSE 0]]

\* Engine.history_setup (src/engine.py)
history_setup(e) ==
    LET n == nsteps(e)
    IN  [i \in 0..(n - 1) |->
            LET ca == linspace(n, i)
            IN  [V |-> CycleV(ca), dVdt |-> CycleDV(ca) * s2ca, dV |-> CycleDV(ca),
                 ca |-> ca, t |-> (ca + 360) \div s2ca, piston_velocity |-> 0]]

\* len(self.history)
HLen(h) == Cardinality(DOMAIN h)

(***************************************************************************)
(* The action controller (DiscreteActionType of mprl/actiontypes.py) for   *)
(* the single channel "mdot".  Modelled from section 4.2 of the            *)
(* specification.  step_counter counts the preprocess calls since reset(): *)
(* it is the step at which the next request arrives.                       *)
(***************************************************************************)
\* reset(): zero all counters, clear masked, restore the full allowance
ActionReset(limit) ==
    [attempt_counter |-> 0, success_counter |-> 0, remaining |-> limit,
     last_injection_step |-> NoStep, step_counter |-> 0,
     masked |-> FALSE, current |-> 0]

\* isAllowed: remainingAllowedInjections > 0 and at least injectionDelay
\* steps elapsed since lastInjectionStep
isallowed(a, delay) ==
    /\ a.remaining > 0
    /\ \/ a.last_injection_step = NoStep
       \/ a.step_counter - a.last_injection_step >= delay

\* preprocess that counts an attempt only when the request is granted
preprocess_miscount(a, raw, scale, delay) ==
    LET requested == raw # 0
        allowed == isallowed(a, delay)
        denied == requested /\ ~allowed
        granted == requested /\ allowed
    IN  [attempt_counter |-> a.attempt_counter + (IF granted THEN 1 ELSE 0),
         success_counter |-> a.success_counter + (IF granted THEN 1 ELSE 0),
         remaining |-> a.remaining - (IF granted THEN 1 ELSE 0),
         last_injection_step |->
            IF granted THEN a.step_counter ELSE a.last_injection_step,
         step_counter |-> a.step_counter + 1,
         masked |-> denied,
         current |-> IF granted THEN raw * scale ELSE 0]

\* preprocess(rawAction): the controller after the call; .current is the
\* command handed to the physics
preprocess(a, raw, scale, delay) ==
    LET requested == raw # 0
        allowed == isallowed(a, delay)
        denied == requested /\ ~allowed
        granted == requested /\ allowed
    IN  [attempt_counter |-> a.attempt_counter + (IF requested THEN 1 ELSE 0),
         success_counter |-> a.success_counter + (IF granted THEN 1 ELSE 0),
         remaining |-> a.remaining - (IF granted THEN 1 ELSE 0),
         last_injection_step |->
            IF granted THEN a.step_counter ELSE a.last_injection_step,
         step_counter |-> a.step_counter + 1,
         masked |-> denied,
         current |-> IF granted THEN raw * scale ELSE 0]

\* self.action of Engine0, which has no action controller
NoAction == ActionReset(0)

(***************************************************************************)
(* The state record and the termination criteria.                          *)
(***************************************************************************)
\* the reward taken as pressure times volume instead of volume increment
get_reward_pV(cs) == cs.p * cs.V

\* get_reward(state)
get_reward(cs) == cs.p * cs.dV

\* Engine.set_initial_state: p0 and T0 of the discrete engines
p0 == starting_cycle_p
T0(h) == (((p0 * h[0].V) * 300) \div one_atm) \div (displacement + TDCvol)

\* Engine.reset_state: a fresh Series of zeros, p0, T0, history.loc[0] and the
\* state_reseter entries (can_inject is the constant 1)
reset_state(h) ==
    [name |-> 0, V |-> h[0].V, dVdt |-> h[0].dVdt, dV |-> h[0].dV,
     ca |-> h[0].ca, t |-> h[0].t, piston_velocity |-> h[0].piston_velocity,
     p |-> p0, T |-> T0(h), mb |-> 0, minj |-> 0,
     attempt_ninj |-> 0, success_ninj |-> 0, can_inject |-> 1]

\* Engine.reset of src/engine.py: histories from history.loc[0], internals
\* [p0, T0, Tb_ad, 0.0]; T holds Tu
reset0(h) ==
    [name |-> 0, V |-> h[0].V, dVdt |-> h[0].dVdt, dV |-> h[0].dV,
     ca |-> h[0].ca, t |-> h[0].t, piston_velocity |-> 0,
     p |-> p00, T |-> T00, mb |-> 0, minj |-> 0,
     attempt_ninj |-> 0, success_ninj |-> 0, can_inject |-> 0]

\* update_state with the history fields read at the old step index
update_state_stale(e, h, cs, a, out) ==
    LET nxt == h[cs.name]
    IN  [name |-> cs.name + 1,
         V |-> nxt.V, dVdt |-> nxt.dVdt, dV |-> nxt.dV, ca |-> nxt.ca,
         t |-> nxt.t, piston_velocity |-> nxt.piston_velocity,
         p |-> out.p, T |-> out.T,
         mb |-> IF e.kind = "TwoZone" THEN out.mb ELSE 0,
         minj |-> IF e.kind = "TwoZone" THEN 0 ELSE a.current * dt_agent(e),
         attempt_ninj |-> a.attempt_counter,
         success_ninj |-> a.success_counter,
         can_inject |-> IF isallowed(a, delays(e)) THEN 1 ELSE 0]

\* Engine.update_state with the state_updater tables of the three engines.
\* Every updater reads history.loc[name + 1] and the controller; out is what
\* the integrator or the gas object holds: [p, T] and, for TwoZoneEngine, mb.  name is incremented
\* after all fields are written.
update_state(e, h, cs, a, out) ==
    LET nxt == h[cs.name + 1]
    IN  [name |-> cs.name + 1,
         V |-> nxt.V, dVdt |-> nxt.dVdt, dV |-> nxt.dV, ca |-> nxt.ca,
         t |-> nxt.t, piston_velocity |-> nxt.piston_velocity,
         p |-> out.p, T |-> out.T,
         mb |-> IF e.kind = "TwoZone" THEN out.mb ELSE 0,
         minj |-> IF e.kind = "TwoZone" THEN 0 ELSE a.current * dt_agent(e),
         attempt_ninj |-> a.attempt_counter,
         success_ninj |-> a.success_counter,
         can_inject |-> IF isallowed(a, delays(e)) THEN 1 ELSE 0]

\* termination with the end of the track tested by > instead of >=
termination_late(e, h, cs) ==
    IF cs.name > HLen(h) - 1
    THEN [reward |-> get_reward(cs), done |-> TRUE]
    ELSE IF cs.p > max_pressure
    THEN [reward |-> negative_reward(e), done |-> FALSE]
    ELSE [reward |-> get_reward(cs), done |-> FALSE]

\* termination with the pressure limit tested against twice max_pressure
termination_lax(e, h, cs) ==
    IF cs.name >= HLen(h) - 1
    THEN [reward |-> get_reward(cs), done |-> TRUE]
    ELSE IF cs.p > 2 * max_pressure
    THEN [reward |-> negative_reward(e), done |-> FALSE]
    ELSE [reward |-> get_reward(cs), done |-> FALSE]

\* termination that also ends the episode when the pressure is over the limit
termination_on_pressure(e, h, cs) ==
    IF cs.name >= HLen(h) - 1
    THEN [reward |-> get_reward(cs), done |-> TRUE]
    ELSE IF cs.p > max_pressure
    THEN [reward |-> negative_reward(e), done |-> TRUE]
    ELSE [reward |-> get_reward(cs), done |-> FALSE]

\* Engine.termination of src/mprl/engines.py: (reward, done)
termination(e, h, cs) ==
    IF cs.name >= HLen(h) - 1
    THEN [reward |-> get_reward(cs), done |-> TRUE]
    ELSE IF cs.p > max_pressure
    THEN [reward |-> negative_reward(e), done |-> FALSE]
    ELSE [reward |-> get_reward(cs), done |-> FALSE]

\* termination0 with over-pressure penalised but not ending the episode
termination0_continue(e, h, cs, rate) ==
    IF cs.name >= HLen(h) - 1 \/ cs.mb > max_burned_mass0
    THEN [reward |-> get_reward(cs), done |-> TRUE]
    ELSE IF rate < 0 \/ cs.p > max_pressure0
    THEN [reward |-> negative_reward0, done |-> rate < 0]
    ELSE [reward |-> get_reward(cs), done |-> FALSE]

\* termination0 without the test of the burned mass
termination0_no_mass(e, h, cs, rate) ==
    IF cs.name >= HLen(h) - 1
    THEN [reward |-> get_reward(cs), done |-> TRUE]
    ELSE IF rate < 0 \/ cs.p > max_pressure0
    THEN [reward |-> negative_reward0, done |-> TRUE]
    ELSE [reward |-> get_reward(cs), done |-> FALSE]

\* Engine.termination(mdot) of src/engine.py: (reward, done).  The rate
\* -1e-3 lies between the model's rates -1 and 0.
termination0(e, h, cs, rate) ==
    IF cs.name >= HLen(h) - 1 \/ cs.mb > max_burned_mass0
    THEN [reward |-> get_reward(cs), done |-> TRUE]
    ELSE IF rate < 0 \/ cs.p > max_pressure0
    THEN [reward |-> negative_reward0, done |-> TRUE]
    ELSE [reward |-> get_reward(cs), done |-> FALSE]

(***************************************************************************)
(* Construction.                                                           *)
(***************************************************************************)
RawActions == {0, 1}            \* spaces.Discrete(2)
Rates0 == {-max_mdot0, 0, max_mdot0}   \* src/engine.py: Box, symmetrized

\* the pressure and temperature the solvers can hand back: the initial
\* values, and a hot gas at the pressure limit and above it
Outcomes(h) ==
    { [p |-> p0, T |-> T0(h)],
      [p |-> max_pressure, T |-> T0(h) + 1000],
      [p |-> max_pressure + 1, T |-> T0(h) + 1000] }
Outcomes0 ==
    { [p |-> p00, T |-> T00],
      [p |-> max_pressure0, T |-> T00 + 1000],
      [p |-> max_pressure0 + 1, T |-> T00 + 1000] }

AgentSteps == 3..MaxAgentSteps

Engines ==
    LET base(k, n) == [kind |-> k, agent_steps |-> n, max_injections |-> None,
                       injection_delay |-> 0,
                       dt |-> IF n > 1 THEN total_time \div (n - 1) ELSE total_time]
        discrete(k, ratios) ==
            { [base(k, n) EXCEPT !.max_injections = mi,
                                 !.injection_delay = d * dt_agent(base(k, n)),
                                 !.dt = CeilDiv(dt_agent(base(k, n)), r)] :
                n \in AgentSteps,
                mi \in {None} \cup 0..MaxInjectionsArg,
                d \in 0..MaxDelaySteps,
                r \in ratios }
    IN  discrete("TwoZone", {1})
        \cup discrete("Reactor", 1..MaxSubRatio)
        \cup discrete("Equilibrate", {1})
        \* src/engine.py accepts every nsteps >= 1
        \cup { base("Engine0", n) : n \in {1} \cup AgentSteps }

\* reset() returns the observation only: the caller holds no state record
NoInfo == [held |-> FALSE, alias |-> FALSE, value |-> [name |-> NoStep]]

\* step() of src/mprl/engines.py returns {"current_state": self.current_state}:
\* the caller's record is the Series the engine goes on updating
Info(cs) == [held |-> TRUE, alias |-> TRUE, value |-> cs]

\* step() of src/engine.py returns {"internals": self.current_state[self.internals]},
\* a new Series with the values of p, Tu and mb
Info0(cs) ==
    [held |-> TRUE, alias |-> FALSE, value |-> [p |-> cs.p, T |-> cs.T, mb |-> cs.mb]]

\* what reset() gives back; prev_calls and prev_success record the step()
\* calls and the successful injections of the episode the reset() ended
ResetResult(prev_calls, prev_success) ==
    [op |-> "reset", outcome |-> "returned", reward |-> 0, done |-> FALSE,
     raw |-> 0, integ_ok |-> TRUE, malformed |-> FALSE,
     prev_calls |-> prev_calls, prev_success |-> prev_success]

NewEpisode == [calls |-> 0, all_zero |-> TRUE, p_ok |-> TRUE]

\* the model runs one engine instance
NoPeer == [engine |-> [kind |-> "none"]]

\* dfundt_mdot has not been called on its own
NoDeriv == [called |-> FALSE]

\* the step() calls the model makes in one episode
MaxCalls(e) ==
    (IF e.kind = "Engine0" THEN e.agent_steps ELSE e.agent_steps - 1) + MaxExtraCalls

\* __init__ of each engine ends with self.reset()
Init ==
    \E e \in Engines :
        /\ engine = e
        /\ history = IF e.kind = "Engine0" THEN history_setup(e) ELSE setup_history(e)
        /\ current_state = IF e.kind = "Engine0" THEN reset0(history) ELSE reset_state(history)
        /\ action = IF e.kind = "Engine0" THEN NoAction ELSE ActionReset(max_injections(e))
        /\ result = ResetResult(0, 0)
        /\ trace = <<>>
        /\ episode = NewEpisode
        /\ info = NoInfo
        /\ peer = NoPeer
        /\ deriv = NoDeriv

(***************************************************************************)
(* reset()                                                                 *)
(***************************************************************************)
\* reset() without the call of self.action.reset()
reset_engine_keeps_action ==
    /\ current_state' = reset_state(history)
    /\ result' = ResetResult(episode.calls, action.success_counter)
    /\ trace' = <<>>
    /\ episode' = NewEpisode
    /\ info' = NoInfo
    /\ UNCHANGED <<engine, history, action, peer, deriv>>

\* reset() that starts the track again from the DataFrame of zeros
reset_engine_zeroes_track ==
    /\ history' = [i \in DOMAIN history |->
                      [V |-> 0, dVdt |-> 0, dV |-> 0, ca |-> 0, t |-> 0,
                       piston_velocity |-> 0]]
    /\ current_state' = reset_state(history')
    /\ action' = ActionReset(max_injections(engine))
    /\ result' = ResetResult(episode.calls, action.success_counter)
    /\ trace' = <<>>
    /\ episode' = NewEpisode
    /\ info' = NoInfo
    /\ UNCHANGED <<engine, peer, deriv>>

\* reset() that rewinds the step index and the history fields but keeps the
\* gas of the episode before
reset_engine_keeps_gas ==
    /\ current_state' = [reset_state(history) EXCEPT !.p = current_state.p,
                                                     !.T = current_state.T,
                                                     !.mb = current_state.mb]
    /\ action' = ActionReset(max_injections(engine))
    /\ result' = ResetResult(episode.calls, action.success_counter)
    /\ trace' = <<>>
    /\ episode' = NewEpisode
    /\ info' = NoInfo
    /\ UNCHANGED <<engine, history, peer, deriv>>

\* reset() with an action controller that all instances share: the call
\* resets the controller the other instance works with too
reset_engine_shares_controller ==
    /\ current_state' = reset_state(history)
    /\ action' = ActionReset(max_injections(engine))
    /\ result' = ResetResult(episode.calls, action.success_counter)
    /\ trace' = <<>>
    /\ episode' = NewEpisode
    /\ info' = NoInfo
    /\ peer' = IF peer.engine.kind = "none"
               THEN peer
               ELSE [peer EXCEPT !.action = ActionReset(max_injections(peer.engine))]
    /\ UNCHANGED <<engine, history, deriv>>

\* the part the three reset() methods of src/mprl/engines.py share:
\* reset_state(), then self.action.reset()
reset_engine ==
    /\ current_state' = reset_state(history)
    /\ action' = ActionReset(max_injections(engine))
    /\ result' = ResetResult(episode.calls, action.success_counter)
    /\ trace' = <<>>
    /\ episode' = NewEpisode
    /\ info' = NoInfo
    /\ UNCHANGED <<engine, history, peer, deriv>>

\* TwoZoneEngine.reset / DiscreteTwoZoneEngine.reset
ResetTwoZone == engine.kind = "TwoZone" /\ reset_engine

\* ReactorEngine.reset
ResetReactor == engine.kind = "Reactor" /\ reset_engine

\* EquilibrateEngine.reset
ResetEquilibrate == engine.kind = "Equilibrate" /\ reset_engine

\* Engine.reset of src/engine.py
Reset0 ==
    /\ engine.kind = "Engine0"
    /\ result.outcome # "exit"
    /\ current_state' = reset0(history)
    /\ result' = ResetResult(episode.calls, action.success_counter)
    /\ trace' = <<>>
    /\ episode' = NewEpisode
    /\ info' = NoInfo
    /\ UNCHANGED <<engine, history, action, peer, deriv>>

(***************************************************************************)
(* step() of the engines of src/mprl/engines.py                            *)
(***************************************************************************)
\* the penalty of a masked action left out
masked_reward_forgotten(e, a, reward) == reward

\* the reward step() returns: the termination reward plus negative_reward
\* if the action had to be masked
masked_reward(e, a, reward) ==
    IF a.masked THEN reward + negative_reward(e) ELSE reward

\* a step() call that ends in the KeyError of history.loc[step + 1]
RaisedResult(raw) ==
    [op |-> "step", outcome |-> "KeyError", reward |-> 0, done |-> FALSE,
     raw |-> raw, integ_ok |-> TRUE, malformed |-> FALSE,
     prev_calls |-> 0, prev_success |-> 0]

\* a step() call that returns (observation, reward, done, info)
Returned(reward, done, raw, ok) ==
    [op |-> "step", outcome |-> "returned", reward |-> reward, done |-> done,
     raw |-> raw, integ_ok |-> ok, malformed |-> FALSE,
     prev_calls |-> 0, prev_success |-> 0]

\* the raw action scaled and handed to the physics without the controller
command_raw(a, raw) == raw * mdot

\* action["mdot"]: the command step() hands to the physics is the one
\* preprocess returned, not the raw action
command(a, raw) == a.current

\* the record kept of one sub-step: the state after update_state(), what
\* termination() returned for it, and whether the sub-step injected mass
SubStep(cs, term, injected) ==
    [state |-> cs, reward |-> term.reward, done |-> term.done, injected |-> injected]

NextEpisode(ep, raw, tr) ==
    [calls |-> ep.calls + 1,
     all_zero |-> ep.all_zero /\ raw = 0,
     p_ok |-> ep.p_ok /\ \A k \in 1..Len(tr) : tr[k].state.p <= max_pressure]

\* a burned mass that grows without injection
dmbdt_leak(mxdot) == mxdot * (1 + inv_far) + 1

\* TwoZoneEngine.dfundt_mdot, equation A.13: dmbdt = mxdot * (1 + 1 / far)
dmbdt(mxdot) == mxdot * (1 + inv_far)

\* Engine.dfundt_mdot of src/engine.py, equation A.13: dmbdt = mxdot
dmbdt0(mxdot) == mxdot

\* TwoZoneEngine.step
StepTwoZone ==
    /\ engine.kind = "TwoZone"
    /\ episode.calls < MaxCalls(engine)
    /\ \E raw \in RawActions :
        LET a == preprocess(action, raw, mdot, delays(engine))
            step == current_state.name
        IN  /\ action' = a
            /\ IF step + 1 \notin DOMAIN history
               THEN \* self.history.t.loc[step + 1] raises KeyError
                    /\ result' = RaisedResult(raw)
                    /\ trace' = <<>>
                    /\ episode' = NextEpisode(episode, raw, <<>>)
                    /\ UNCHANGED <<current_state, info>>
               ELSE \E ok \in BOOLEAN, out \in Outcomes(history) :
                    LET \* dmb/dt is constant over the interval
                        gain == dmbdt(command(a, raw))
                                    * (history[step + 1].t - current_state.t)
                    IN  \* integ.y after a failed integration is wherever vode stopped
                        \E mb \in (IF ok THEN {current_state.mb + gain}
                                        ELSE {current_state.mb, current_state.mb + gain}) :
                        LET cs == update_state(engine, history, current_state, a,
                                               [p |-> out.p, T |-> out.T, mb |-> mb])
                            term == termination(engine, history, cs)
                            tr == <<SubStep(cs, term, command(a, raw) > 0)>>
                        IN  /\ current_state' = cs
                            /\ info' = Info(cs)
                            /\ result' = Returned(masked_reward(engine, a, term.reward),
                                                  term.done, raw, ok)
                            /\ trace' = tr
                            /\ episode' = NextEpisode(episode, raw, tr)
    /\ UNCHANGED <<engine, history, peer, deriv>>

\* an injection repeated at every sub-step of the agent step
injects_every_substep(a, raw, k) == command(a, raw) > 0

\* ReactorEngine.step, "inject only once per subcyling": sub-step k injects
\* (before sim.advance) iff the command is positive and k is the first
\* sub-step (k = 1 is substep 0 of the source)
injects(a, raw, k) == command(a, raw) > 0 /\ k = 1

\* the loop with the reward of the last sub-step instead of the sum
RECURSIVE reactor_loop_last(_, _, _, _, _, _, _)
reactor_loop_last(e, h, a, raw, outs, k, acc) ==
    IF k > Len(outs) \/ acc.raised
    THEN acc
    ELSE IF acc.cs.name + 1 \notin DOMAIN h
    THEN [acc EXCEPT !.raised = TRUE]
    ELSE LET cs == update_state(e, h, acc.cs, a, outs[k])
             term == termination(e, h, cs)
         IN  reactor_loop_last(e, h, a, raw, outs, k + 1,
                [cs |-> cs, reward |-> term.reward, done |-> term.done,
                 trace |-> Append(acc.trace, SubStep(cs, term, injects(a, raw, k))),
                 raised |-> FALSE])

\* the loop over the sub-steps of ReactorEngine.step.  acc is
\* [cs, reward, done, trace, raised]; outs[k] is what the reactor holds after
\* sim.advance of sub-step k (k = 1 is substep 0 of the source).
RECURSIVE reactor_loop(_, _, _, _, _, _, _)
reactor_loop(e, h, a, raw, outs, k, acc) ==
    IF k > Len(outs) \/ acc.raised
    THEN acc
    ELSE IF acc.cs.name + 1 \notin DOMAIN h
    THEN [acc EXCEPT !.raised = TRUE]
    ELSE LET cs == update_state(e, h, acc.cs, a, outs[k])
             term == termination(e, h, cs)
         IN  reactor_loop(e, h, a, raw, outs, k + 1,
                [cs |-> cs, reward |-> acc.reward + term.reward, done |-> term.done,
                 trace |-> Append(acc.trace, SubStep(cs, term, injects(a, raw, k))),
                 raised |-> FALSE])

\* ReactorEngine.step
StepReactor ==
    /\ engine.kind = "Reactor"
    /\ episode.calls < MaxCalls(engine)
    /\ \E raw \in RawActions :
       \E outs \in [1..(substeps(engine) - 1) -> Outcomes(history)] :
        LET a == preprocess(action, raw, mdot, delays(engine))
            r == reactor_loop(engine, history, a, raw, outs, 1,
                    [cs |-> current_state, reward |-> 0, done |-> FALSE,
                     trace |-> <<>>, raised |-> FALSE])
        IN  /\ action' = a
            /\ current_state' = r.cs
            /\ trace' = r.trace
            /\ episode' = NextEpisode(episode, raw, r.trace)
            /\ info' = IF r.raised THEN info ELSE Info(r.cs)
            /\ result' = IF r.raised
                         THEN RaisedResult(raw)
                         ELSE Returned(masked_reward(engine, a, r.reward),
                                       r.done, raw, TRUE)
    /\ UNCHANGED <<engine, history, peer, deriv>>

\* EquilibrateEngine.step
StepEquilibrate ==
    /\ engine.kind = "Equilibrate"
    /\ episode.calls < MaxCalls(engine)
    /\ \E raw \in RawActions :
        LET a == preprocess(action, raw, mdot, delays(engine))
            step == current_state.name
        IN  /\ action' = a
            /\ IF step + 1 \notin DOMAIN history
               THEN \* self.history.V[step + 1] raises KeyError
                    /\ result' = RaisedResult(raw)
                    /\ trace' = <<>>
                    /\ episode' = NextEpisode(episode, raw, <<>>)
                    /\ UNCHANGED <<current_state, info>>
               ELSE \E out \in Outcomes(history) :
                    LET cs == update_state(engine, history, current_state, a, out)
                        term == termination(engine, history, cs)
                        tr == <<SubStep(cs, term, command(a, raw) > 0)>>
                    IN  /\ current_state' = cs
                        /\ info' = Info(cs)
                        /\ result' = Returned(masked_reward(engine, a, term.reward),
                                              term.done, raw, TRUE)
                        /\ trace' = tr
                        /\ episode' = NextEpisode(episode, raw, tr)
    /\ UNCHANGED <<engine, history, peer, deriv>>

(***************************************************************************)
(* step() of the Engine of src/engine.py                                   *)
(***************************************************************************)
\* Engine.step of src/engine.py.  wellformed is whether the raw action has
\* action_size entries: parse_action ends the process otherwise.
Step0 ==
    /\ engine.kind = "Engine0"
    /\ result.outcome # "exit"
    /\ episode.calls < MaxCalls(engine)
    /\ \E rate \in Rates0, wellformed \in BOOLEAN :
        LET term == termination0(engine, history, current_state, rate)
            step == current_state.name
            ep == [calls |-> episode.calls + 1,
                   all_zero |-> episode.all_zero /\ rate = 0,
                   p_ok |-> episode.p_ok]
        IN  /\ episode' = ep
            /\ trace' = <<>>
            /\ IF ~wellformed
               THEN \* parse_action: sys.exit
                    /\ result' = [RaisedResult(rate) EXCEPT !.outcome = "exit",
                                                            !.malformed = TRUE]
                    /\ UNCHANGED <<current_state, info>>
               ELSE IF term.done
               THEN /\ result' = Returned(term.reward, TRUE, rate, TRUE)
                    /\ info' = Info0(current_state)
                    /\ UNCHANGED current_state
               ELSE \E ok \in BOOLEAN, out \in Outcomes0 :
                    IF ~ok
                    THEN \* integ.successful() is false
                         /\ result' = Returned(negative_reward0, TRUE, rate, FALSE)
                         /\ info' = Info0(current_state)
                         /\ UNCHANGED current_state
                    ELSE LET nxt == history[step + 1]
                             cs == [current_state EXCEPT
                                      !.V = nxt.V, !.dVdt = nxt.dVdt, !.dV = nxt.dV,
                                      !.ca = nxt.ca, !.t = nxt.t,
                                      !.p = out.p, !.T = out.T,
                                      !.mb = @ + dmbdt0(rate) * (nxt.t - current_state.t),
                                      !.name = @ + 1]
                         IN  /\ current_state' = cs
                             /\ info' = Info0(cs)
                             /\ result' = Returned(get_reward(cs), term.done, rate, TRUE)
    /\ UNCHANGED <<engine, history, action, peer, deriv>>

Next ==
    \/ ResetTwoZone
    \/ ResetReactor
    \/ ResetEquilibrate
    \/ Reset0
    \/ StepTwoZone
    \/ StepReactor
    \/ StepEquilibrate
    \/ Step0

Spec == Init /\ [][Next]_vars

(***************************************************************************)
(* Two engine instances whose calls are interleaved                        *)
(***************************************************************************)
\* what an engine instance owns: its parameters, history, state, action
\* controller, and what its last call gave back to its caller
Instance(e, h, cs, a, res, tr, ep, i) ==
    [engine |-> e, history |-> h, current_state |-> cs, action |-> a,
     result |-> res, trace |-> tr, episode |-> ep, info |-> i]

\* the instance the next call is made on
Current ==
    Instance(engine, history, current_state, action, result, trace, episode, info)

\* DiscreteTwoZoneEngine(...): the instance __init__ leaves
Construct(e) ==
    Instance(e, setup_history(e), reset_state(setup_history(e)),
             ActionReset(max_injections(e)), ResetResult(0, 0), <<>>, NewEpisode,
             NoInfo)

\* the configurations of the pair: three agent steps, no delay, no or one
\* injection allowed
PairEngines ==
    { e \in Engines : /\ e.kind = "TwoZone"
                      /\ e.agent_steps = 3
                      /\ e.injection_delay = 0
                      /\ e.max_injections \in {0, 1} }

\* two instances, each constructed on its own
InitPair ==
    \E e1 \in PairEngines, e2 \in PairEngines :
        /\ engine = e1
        /\ history = Construct(e1).history
        /\ current_state = Construct(e1).current_state
        /\ action = Construct(e1).action
        /\ result = Construct(e1).result
        /\ trace = Construct(e1).trace
        /\ episode = Construct(e1).episode
        /\ info = Construct(e1).info
        /\ peer = Construct(e2)
        /\ deriv = NoDeriv

\* the caller turns to the other instance: no field of either changes
Switch ==
    /\ peer.engine.kind # "none"
    /\ engine' = peer.engine
    /\ history' = peer.history
    /\ current_state' = peer.current_state
    /\ action' = peer.action
    /\ result' = peer.result
    /\ trace' = peer.trace
    /\ episode' = peer.episode
    /\ info' = peer.info
    /\ peer' = Current
    /\ UNCHANGED deriv

NextPair ==
    \/ Switch
    \/ ResetTwoZone
    \/ StepTwoZone

SpecPair == InitPair /\ [][NextPair]_vars

(***************************************************************************)
(* One evaluation of the two-zone derivative                               *)
(***************************************************************************)
\* TwoZoneEngine.dfundt_mdot: heat exchange rate between the unburned zone
\* and the cylinder walls
Qudot(mb, Qdot) == IF mb >= small_mass THEN 0 ELSE Qdot

\* TwoZoneEngine.dfundt_mdot, equation A.24; full is the value of the formula
dTbdt(mb, full) == IF mb <= small_mass THEN 0 ELSE full

\* the rates the derivative is evaluated with: none of them zero
DerivRates == (-MaxDerivRate..MaxDerivRate) \ {0}

\* an engine after construction and the arguments of one call of dfundt_mdot
InitDeriv ==
    /\ \E e \in PairEngines :
        /\ e.max_injections = 1
        /\ engine = e
        /\ history = Construct(e).history
        /\ current_state = Construct(e).current_state
        /\ action = Construct(e).action
        /\ result = Construct(e).result
        /\ trace = Construct(e).trace
        /\ episode = Construct(e).episode
        /\ info = Construct(e).info
    /\ peer = NoPeer
    /\ \E mb \in 0..MaxDerivMass, Qdot \in DerivRates, full \in DerivRates,
          mxdot \in {0, mdot} :
        deriv = [called |-> FALSE, mb |-> mb, Qdot |-> Qdot, full |-> full,
                 mxdot |-> mxdot, Qudot |-> 0, dTbdt |-> 0, dmbdt |-> 0]

\* TwoZoneEngine.dfundt_mdot: the terms of the derivative that depend on the
\* burned mass alone
dfundt_mdot ==
    /\ ~deriv.called
    /\ deriv' = [deriv EXCEPT !.called = TRUE,
                              !.Qudot = Qudot(deriv.mb, deriv.Qdot),
                              !.dTbdt = dTbdt(deriv.mb, deriv.full),
                              !.dmbdt = dmbdt(deriv.mxdot)]
    /\ UNCHANGED <<engine, history, current_state, action, result, trace,
                   episode, info, peer>>

NextDeriv == dfundt_mdot

SpecDeriv == InitDeriv /\ [][NextDeriv]_vars

(***************************************************************************)
(* Properties.                                                             *)
(***************************************************************************)
LastIndex == HLen(history) - 1

StepReturned == result.op = "step" /\ result.outcome = "returned"

\* C1: DiscreteTwoZoneEngine, zero action at every step since reset() and the
\* pressure never above max_pressure: every step() call advances the step
\* index by one, returns done = FALSE while the index is below N - 1 and
\* done = TRUE on the call that brings it to N - 1.
C1_DoneExactlyAtLastStep ==
    (engine.kind = "TwoZone" /\ StepReturned /\ episode.all_zero /\ episode.p_ok)
        => /\ current_state.name = episode.calls
           /\ result.done <=> (episode.calls = LastIndex)

C1_Witness ==
    /\ engine.kind = "TwoZone" /\ StepReturned
    /\ episode.all_zero /\ episode.p_ok
    /\ episode.calls = LastIndex
    /\ result.done

\* the history fields of a state are those of the history sample of its index
FollowsTrack(cs) ==
    /\ cs.name \in DOMAIN history
    /\ \A f \in {"V", "dVdt", "dV", "ca", "t"} : cs[f] = history[cs.name][f]

\* C2: in every reachable state of every engine, and after every sub-step of
\* a step(), the fields V, dVdt, dV, ca and t of the state equal the history
\* sample at the state's own step index; the first advance after reset()
\* leaves the state at history sample 1.
C2_HistoryFieldsFollowTrack ==
    /\ FollowsTrack(current_state)
    /\ \A k \in 1..Len(trace) : FollowsTrack(trace[k].state)
    /\ (StepReturned /\ episode.calls = 1 /\ Len(trace) > 0)
            => /\ trace[1].state.name = 1
               /\ trace[1].state.t = history[1].t
               /\ trace[1].state.ca = history[1].ca

C2_Witness ==
    /\ engine.kind = "Reactor" /\ StepReturned
    /\ Len(trace) >= 2
    /\ current_state.name = LastIndex
    /\ current_state.t = history[LastIndex].t
    /\ trace[1].state.t # trace[2].state.t

\* what the termination evaluation of the engine answers for its current
\* state, for every injection rate of src/engine.py
Evaluations ==
    IF engine.kind = "Engine0"
    THEN { [state |-> current_state,
            reward |-> termination0(engine, history, current_state, rate).reward] :
                rate \in Rates0 }
    ELSE { [state |-> trace[k].state, reward |-> trace[k].reward] : k \in 1..Len(trace) }

PressureLimit == IF engine.kind = "Engine0" THEN max_pressure0 ELSE max_pressure

\* the states for which termination answers (p dV, done) before it looks at
\* the pressure
EndOfEpisode(cs) ==
    \/ cs.name >= LastIndex
    \/ engine.kind = "Engine0" /\ cs.mb > max_burned_mass0

\* C3 as stated: for every state whose pressure is above max_pressure, the
\* step index and the burned mass being arbitrary, the termination
\* evaluation returns the negative penalty as reward.
C3_PenaltyWheneverOverPressure ==
    \A ev \in Evaluations :
        ev.state.p > PressureLimit => ev.reward = negative_reward(engine)

\* C3 amended: for every state whose pressure is above max_pressure and that
\* is not at the last history sample (nor, in src/engine.py, above the burned
\* mass limit), the termination evaluation returns the negative penalty; at
\* the last sample (or above the mass limit) it returns p dV.
C3_PenaltyBeforeEndOfEpisode ==
    \A ev \in Evaluations :
        ev.state.p > PressureLimit
            => ev.reward = IF EndOfEpisode(ev.state)
                           THEN get_reward(ev.state)
                           ELSE negative_reward(engine)

C3_Witness ==
    /\ engine.kind \in Discrete /\ StepReturned
    /\ \E k \in 1..Len(trace) :
        /\ trace[k].state.p > max_pressure
        /\ trace[k].state.name < LastIndex
        /\ trace[k].reward = negative_reward(engine)
        /\ trace[k].reward # get_reward(trace[k].state)

RECURSIVE SumRewards(_)
SumRewards(tr) == IF tr = <<>> THEN 0 ELSE tr[1].reward + SumRewards(Tail(tr))

\* C4: in TwoZoneEngine, ReactorEngine and EquilibrateEngine the reward
\* step() returns is the termination reward, summed over the sub-steps, plus
\* one negative_reward when the controller's masked flag is set and plus
\* nothing when it is not, whatever the pressure and done.
C4_MaskedPenaltyAddedOnce ==
    (engine.kind \in Discrete /\ StepReturned)
        => result.reward = SumRewards(trace)
                            + (IF action.masked THEN negative_reward(engine) ELSE 0)

C4_Witness ==
    /\ engine.kind = "Reactor" /\ StepReturned
    /\ action.masked
    /\ result.done
    /\ Len(trace) >= 2
    /\ current_state.p > max_pressure
    /\ result.reward = SumRewards(trace) + negative_reward(engine)

\* C5: a step() call whose ODE integration fails returns done = TRUE with
\* the negative penalty as reward and leaves the state as it was, in the
\* Engine of src/engine.py and in TwoZoneEngine.
C5_FailedIntegrationEndsEpisode ==
    [][(result'.op = "step" /\ result'.outcome = "returned" /\ ~result'.integ_ok)
          => /\ result'.done
             /\ result'.reward = negative_reward(engine)
             /\ current_state' = current_state]_vars

\* a step() call of a discrete engine: the one place preprocess is called
PreprocessCalled == engine.kind \in Discrete /\ result'.op = "step"

\* C6: over any sequence of preprocess calls since reset(), the remaining
\* allowance decreases by exactly 1 on each call whose non-zero request
\* succeeds and is unchanged otherwise; the attempt counter increases by
\* exactly 1 on every call with a non-zero request, granted or denied, and is
\* unchanged on a zero request.
C6_CountersPerRequest ==
    [][PreprocessCalled =>
        LET requested == result'.raw # 0
            succeeded == requested /\ action'.current # 0
        IN  /\ action'.remaining = action.remaining - (IF succeeded THEN 1 ELSE 0)
            /\ action'.attempt_counter
                    = action.attempt_counter + (IF requested THEN 1 ELSE 0)
            /\ succeeded <=> (requested /\ isallowed(action, delays(engine)))
      ]_vars

C6_Witness ==
    /\ engine.kind \in Discrete /\ result.op = "step"
    /\ action.success_counter >= 1
    /\ action.attempt_counter > action.success_counter
    /\ action.remaining = max_injections(engine) - action.success_counter
    /\ action.remaining >= 1
    /\ action.masked

\* the injection delay of the engine in agent steps
DelaySteps == engine.injection_delay \div dt_agent(engine)

InjectedBefore == engine.kind \in Discrete /\ action.last_injection_step # NoStep

\* the steps k+1 .. k+d-1 after an injection at step k
InDelayWindow ==
    /\ action.step_counter > action.last_injection_step
    /\ action.step_counter < action.last_injection_step + DelaySteps

DelayElapsedNow == action.step_counter = action.last_injection_step + DelaySteps

\* C7 as stated: with a delay of d steps and an injection that succeeded at
\* step k, isAllowed is false at every step k+1 .. k+d-1 and true at step k+d.
C7_AllowedAgainAfterDelay ==
    InjectedBefore =>
        /\ InDelayWindow => ~isallowed(action, delays(engine))
        /\ DelayElapsedNow => isallowed(action, delays(engine))

\* C7 amended: isAllowed is false at every step k+1 .. k+d-1; at step k+d it
\* is true if injections remain in the allowance and false if the allowance
\* is used up.
C7_AllowedAfterDelayIfAllowanceLeft ==
    InjectedBefore =>
        /\ InDelayWindow => ~isallowed(action, delays(engine))
        /\ DelayElapsedNow => (isallowed(action, delays(engine)) <=> action.remaining > 0)

C7_Witness ==
    /\ InjectedBefore
    /\ DelaySteps >= 2
    /\ DelayElapsedNow
    /\ action.remaining > 0
    /\ isallowed(action, delays(engine))
    /\ action.attempt_counter > action.success_counter

\* C8: after every preprocess call masked is true iff the request of that
\* call was denied; when isAllowed is false the command handed to the physics
\* is zero, and no sub-step of the step() injects or burns mass.
C8_DeniedRequestIsMaskedAndZero ==
    [][PreprocessCalled =>
        LET allowed == isallowed(action, delays(engine))
        IN  /\ action'.masked <=> (result'.raw # 0 /\ ~allowed)
            /\ ~allowed =>
                /\ action'.current = 0
                /\ \A k \in 1..Len(trace') : ~trace'[k].injected
                /\ current_state'.mb = current_state.mb \/ ~result'.integ_ok
                /\ result'.outcome = "returned" => current_state'.minj = 0
      ]_vars

C8_Witness ==
    /\ engine.kind = "TwoZone" /\ StepReturned
    /\ result.raw # 0
    /\ action.masked
    /\ action.current = 0
    /\ ~trace[1].injected
    /\ current_state.mb > 0

\* C9: after any sequence of step() calls, reset() leaves the controller as
\* it is after construction: attempt and success counters zero, masked false,
\* the full allowance of injections, and the first request allowed iff it was
\* allowed in the first episode.
C9_ResetRestoresController ==
    (engine.kind \in Discrete /\ result.op = "reset")
        => /\ action.attempt_counter = 0
           /\ action.success_counter = 0
           /\ ~action.masked
           /\ action.remaining = max_injections(engine)
           /\ isallowed(action, delays(engine)) <=> (max_injections(engine) > 0)
           /\ current_state.attempt_ninj = 0 /\ current_state.success_ninj = 0

C9_Witness ==
    /\ engine.kind \in Discrete /\ result.op = "reset"
    /\ result.prev_calls >= 2
    /\ result.prev_success >= 1
    /\ action = ActionReset(max_injections(engine))

\* C10: in the Engine of src/engine.py, every step() call made while the
\* pressure is above max_pressure, the burned mass is above max_burned_mass
\* or the step index is at the last history sample returns done = TRUE.
C10_UnsafeStateEndsEpisode ==
    [][(/\ engine.kind = "Engine0"
        /\ result'.op = "step" /\ result'.outcome = "returned"
        /\ \/ current_state.p > max_pressure0
           \/ current_state.mb > max_burned_mass0
           \/ current_state.name >= LastIndex)
          => result'.done]_vars

C10_Witness ==
    /\ engine.kind = "Engine0" /\ StepReturned
    /\ current_state.p > max_pressure0
    /\ current_state.mb <= max_burned_mass0
    /\ current_state.name < LastIndex
    /\ result.raw >= 0 /\ result.integ_ok
    /\ result.done
    /\ result.reward = negative_reward0

\* C11: in the two-zone engines of src/mprl/engines.py, a step() call returns
\* done = TRUE when the state it produced is at the last history sample (the
\* evo crank angle), when its pressure is above max_pressure, or when its
\* burned mass is above max_burned_mass.
C11_EvoPressureOrMassEndsEpisode ==
    (/\ engine.kind = "TwoZone" /\ StepReturned
     /\ \/ current_state.name >= LastIndex
        \/ current_state.p > max_pressure
        \/ current_state.mb > max_burned_mass)
        => result.done

RECURSIVE SumWork(_)
SumWork(tr) == IF tr = <<>> THEN 0 ELSE tr[1].state.p * tr[1].state.dV + SumWork(Tail(tr))

C13_InjectionOncePerAgentStep ==
    (engine.kind = "Reactor" /\ StepReturned)
        => /\ trace[1].injected <=> (action.current > 0)
           /\ \A k \in 2..Len(trace) : ~trace[k].injected
           /\ (result.raw = 0 \/ action.masked)
                => \A k \in 1..Len(trace) : ~trace[k].injected
           /\ Cardinality({k \in 1..Len(trace) : trace[k].injected}) <= 1

C13_Witness ==
    /\ engine.kind = "Reactor" /\ StepReturned
    /\ Len(trace) >= 2
    /\ action.current > 0
    /\ trace[1].injected
    /\ ~trace[2].injected
    /\ trace[2].state.minj > 0

\* what termination answers for the state of a sub-step: the penalty when
\* its pressure is above max_pressure before the last history sample, p dV
\* otherwise
SubReward(st) ==
    IF st.p > max_pressure /\ st.name < LastIndex
    THEN negative_reward(engine) ELSE get_reward(st)

RECURSIVE SumSubRewards(_)
SumSubRewards(tr) ==
    IF tr = <<>> THEN 0 ELSE SubReward(tr[1].state) + SumSubRewards(Tail(tr))

\* C14: ReactorEngine.step evaluates termination once after each of its
\* substeps - 1 sub-steps and returns the sum of the sub-step rewards (plus
\* the penalty of a masked action); a sub-step whose pressure is above
\* max_pressure contributes the negative penalty even when the pressure is
\* back under the limit at the end of the agent step; done is that of the
\* last sub-step.
C14_SubStepRewardsSummed ==
    (engine.kind = "Reactor" /\ StepReturned)
        => /\ Len(trace) = substeps(engine) - 1
           /\ result.reward = SumSubRewards(trace)
                                + (IF action.masked THEN negative_reward(engine) ELSE 0)
           /\ result.done = trace[Len(trace)].done

C14_Witness ==
    /\ engine.kind = "Reactor" /\ StepReturned
    /\ Len(trace) = 2
    /\ ~action.masked
    /\ trace[1].state.p > max_pressure
    /\ current_state.p <= max_pressure
    /\ result.reward = negative_reward(engine) + get_reward(current_state)
    /\ result.reward # get_reward(current_state)

\* what the state record the caller holds shows once the engine's state is cs
Shows(i, cs) == IF i.alias THEN cs ELSE i.value

\* C15: a state record the caller obtained from a step() call (the
\* current_state of its info) still shows the values of that call after the
\* next step() call has returned.
C15_EarlierRecordKeepsItsValues ==
    [][(info.held /\ result'.op = "step" /\ result'.outcome = "returned")
          => Shows(info, current_state') = info.value]_vars

\* the track the constructor built
BuiltTrack ==
    IF engine.kind = "Engine0" THEN history_setup(engine) ELSE setup_history(engine)

\* C16: no step() and no reset() of any engine changes a sample of the
\* history: after any sequence of calls every sample is the one the
\* constructor built.
C16_HistoryNeverChanges ==
    /\ DOMAIN history = DOMAIN BuiltTrack
    /\ \A i \in DOMAIN history : history[i] = BuiltTrack[i]

C16_Witness ==
    /\ engine.kind = "Reactor" /\ result.op = "reset"
    /\ result.prev_calls >= 2
    /\ history[1].piston_velocity # 0
    /\ history = setup_history(engine)

\* C17: after any sequence of step() calls reset() leaves a state with step
\* index 0, the history fields of history[0], pressure p0, temperature T0 and
\* every other field at its initial value, the same state after every reset().
C17_ResetGivesFreshState ==
    result.op = "reset"
        => /\ current_state.name = 0
           /\ \A f \in {"V", "dVdt", "dV", "ca", "t", "piston_velocity"} :
                    current_state[f] = history[0][f]
           /\ current_state.p = (IF engine.kind = "Engine0" THEN p00 ELSE p0)
           /\ current_state.T = (IF engine.kind = "Engine0" THEN T00 ELSE T0(history))
           /\ current_state.mb = 0 /\ current_state.minj = 0
           /\ current_state.attempt_ninj = 0 /\ current_state.success_ninj = 0
           /\ current_state.can_inject = (IF engine.kind = "Engine0" THEN 0 ELSE 1)
           /\ trace = <<>>

C17_Witness ==
    /\ engine.kind = "TwoZone" /\ result.op = "reset"
    /\ result.prev_calls >= 2
    /\ result.prev_success >= 1
    /\ current_state.mb = 0
    /\ current_state.p = p0
    /\ current_state.name = 0

\* C18: a step() call that fails (malformed raw action, failed integration)
\* reports the failure in the step result it returns, and neither ends the
\* process nor raises.
C18_FailuresReportedInStepResult ==
    (result.op = "step" /\ (result.malformed \/ ~result.integ_ok))
        => result.outcome = "returned"

\* C19: no engine whose history was built with a step count below 2 reaches
\* a state where step() has been called.
C19_ShortTrackNeverSteps ==
    (engine.agent_steps < 2 \/ HLen(history) < 2) => result.op # "step"

\* the command the model integrated with in the last step()
ZeroCommand == IF engine.kind = "Engine0" THEN result.raw = 0 ELSE action.current = 0

\* C20: in the two-zone models a returning step() with a zero injection
\* command (and no heat transfer) leaves the burned mass as it was, and after
\* any run of zero commands since reset() the burned mass is still zero.
C20_ZeroCommandKeepsBurnedMass ==
    [][(engine.kind \in {"TwoZone", "Engine0"}
            /\ result'.op = "step" /\ result'.outcome = "returned")
          => /\ ZeroCommand' => current_state'.mb = current_state.mb
             /\ episode'.all_zero => current_state'.mb = 0]_vars

C20_Witness ==
    /\ engine.kind = "TwoZone" /\ StepReturned
    /\ ZeroCommand
    /\ result.raw = 0
    /\ action.success_counter >= 1
    /\ current_state.mb > 0
    /\ current_state.mb % dmbdt(mdot) = 0

C22_InstancesAreIndependent ==
    [][\/ peer' = peer
       \/ peer' = Current /\ Current' = peer]_vars

C22_Witness ==
    /\ peer.engine.kind = "TwoZone"
    /\ StepReturned
    /\ episode.calls = 2 /\ result.done
    /\ action.success_counter = 0
    /\ peer.episode.calls = 1
    /\ peer.action.success_counter = 1
    /\ peer.current_state.mb > 0
    /\ current_state.mb = 0

\* the state of the engine meets a termination criterion of its variant
TerminalState ==
    IF engine.kind = "Engine0"
    THEN \/ current_state.name >= LastIndex
         \/ current_state.mb > max_burned_mass0
         \/ current_state.p > max_pressure0
    ELSE current_state.name >= LastIndex

\* C23: in every step() call of every engine termination is evaluated on
\* the state the call has updated: the done a call returns is that of the
\* state it leaves (or of a failure of the call itself).
C23_TerminationOnUpdatedState ==
    StepReturned
        => (result.done
                <=> \/ TerminalState
                    \/ engine.kind = "Engine0" /\ (result.raw < 0 \/ ~result.integ_ok))

\* C24: in the two-zone derivative the heat loss of the unburned zone is the
\* heat-transfer action exactly when mb is below small_mass and zero
\* otherwise, and dTb/dt is zero exactly when mb is below small_mass and the
\* value of the full formula otherwise, mb = small_mass being in the
\* otherwise case of both.
C24_ThresholdSplitsBothTerms ==
    deriv.called
        => /\ deriv.Qudot = (IF deriv.mb < small_mass THEN deriv.Qdot ELSE 0)
           /\ deriv.dTbdt = (IF deriv.mb < small_mass THEN 0 ELSE deriv.full)

C26_ReadsStayOnTrack ==
    (engine.kind \in Discrete /\ result.op = "step")
        => /\ result.outcome # "KeyError"
           /\ current_state.name \in DOMAIN history

\* C27 as stated: in the Engine of src/engine.py a step() call that returns
\* done = TRUE leaves the state unchanged, a call that advances the state
\* returns done = FALSE, and once a call has returned done = TRUE every later
\* call returns done = TRUE with the same state.
C27_TerminalIsAbsorbing ==
    [][(engine.kind = "Engine0" /\ result'.op = "step" /\ result'.outcome = "returned")
          => /\ result'.done => current_state' = current_state
             /\ current_state' # current_state => ~result'.done
             /\ (StepReturned /\ result.done)
                    => (result'.done /\ current_state' = current_state)]_vars

\* C27 amended: a step() call that returns done = TRUE leaves the state
\* unchanged and a call that advances the state returns done = FALSE, so the
\* done = TRUE of the end of an N-sample track is seen on the N-th call at
\* the earliest; the terminal condition is absorbing when it is one of the
\* state (end of track, burned mass or pressure over the limit).
C27_TerminalStateIsAbsorbing ==
    [][(engine.kind = "Engine0" /\ result'.op = "step" /\ result'.outcome = "returned")
          => /\ result'.done => current_state' = current_state
             /\ current_state' # current_state => ~result'.done
             /\ TerminalState => (result'.done /\ current_state' = current_state)
             /\ (result'.done /\ current_state.name >= LastIndex)
                    => episode'.calls >= HLen(history)]_vars

C27_Witness ==
    /\ engine.kind = "Engine0" /\ StepReturned
    /\ HLen(history) >= 3
    /\ result.done
    /\ current_state.name = LastIndex
    /\ current_state.p <= max_pressure0
    /\ episode.calls > HLen(history)

C29_StateMirrorsController ==
    (engine.kind \in Discrete /\ result.outcome = "returned")
        => /\ (current_state.can_inject = 1) <=> isallowed(action, delays(engine))
           /\ current_state.attempt_ninj = action.attempt_counter
           /\ current_state.success_ninj = action.success_counter

\* the longest interval between two samples of the track
LongestInterval ==
    LET gaps == { history[i + 1].t - history[i].t : i \in 0..(LastIndex - 1) }
    IN  CHOOSE g \in gaps : \A x \in gaps : x <= g

\* C30: at every point of an episode the success counter of the mdot channel
\* is at most its attempt counter and at most the configured maximum number
\* of injections, success counter + remaining allowance is that maximum, and
\* the mass injected in the episode is at most that of max_injections
\* injections.
C30_SuccessWithinAttemptsAndLimit ==
    engine.kind \in Discrete
        => LET limit == IF engine.max_injections = None
                        THEN Rint(max_minj, mdot * dt_agent(engine))
                        ELSE engine.max_injections
           IN  /\ action.success_counter <= action.attempt_counter
               /\ action.success_counter <= limit
               /\ action.remaining >= 0
               /\ action.success_counter + action.remaining = limit
               /\ current_state.minj <= mdot * dt_agent(engine)
               /\ current_state.mb
                    <= limit * (1 + inv_far) * mdot * LongestInterval

C30_Witness ==
    /\ engine.kind = "TwoZone" /\ StepReturned
    /\ engine.max_injections = 1
    /\ action.success_counter = 1
    /\ action.remaining = 0
    /\ action.attempt_counter >= 2
    /\ current_state.mb > 0

====
